---- MODULE Spec2Model ----
(***************************************************************************)
(* Model of .github/scripts/update-rankings.mjs: the match extractor       *)
(* (getMatchResults), the ranking aggregator (calculateRankings), the      *)
(* report renderer (generateReadme) and the driver (main).                 *)
(*                                                                         *)
(* Strings are sequences of one-character strings, so that the regular     *)
(* expression, String.prototype.trim and the property-key rules of the     *)
(* players object are computed character by character.                     *)
(***************************************************************************)
EXTENDS Integers, Sequences, FiniteSets, TLC

VARIABLES
    pc,          \* position of the run: which statement executes next
    comments,    \* comments.data, the response of listComments
    fetchFailed, \* listComments threw
    ci,          \* index (1-based) of the comment forEach is visiting
    body,        \* const body of the forEach callback
    lastIndex,   \* matchPattern.lastIndex, the cursor of the global regex
    acc,         \* const matches of getMatchResults (line 20)
    matches,     \* const matches of main (line 115) / the argument of calculateRankings
    given,       \* the match sequence as it was handed to calculateRankings
    results,     \* what the calls of calculateRankings returned, in call order
    protoNaN,    \* properties the script has stored on built-in objects: <<key, field>>
    readme,      \* const readme of main (line 124)
    file,        \* contents of README.md on disk
    writes,      \* number of completed fs.writeFileSync calls
    rejected     \* the promise of main() rejected

vars == <<pc, comments, fetchFailed, ci, body, lastIndex, acc, matches, given,
          results, protoNaN, readme, file, writes, rejected>>

----------------------------------------------------------------------------
(* Bounds of the model. *)

MaxComments == 2

MaxMatches == 3

MaxHistory == 12

(* slice(-10), line 76 *)
RecentCount == 10

----------------------------------------------------------------------------
(* Generic helpers. *)

Max(a, b) == IF a >= b THEN a ELSE b

Min(a, b) == IF a <= b THEN a ELSE b

SetMax(S) == CHOOSE x \in S : \A y \in S : y <= x

SetMin(S) == CHOOSE x \in S : \A y \in S : x <= y

SeqsUpTo(S, n) == UNION {[1..k -> S] : k \in 0..n}

RECURSIVE Gcd(_, _)
Gcd(a, b) == IF b = 0 THEN a ELSE Gcd(b, a % b)

----------------------------------------------------------------------------
(* Characters. *)

Lower == {"a","b","c","d","e","f","g","h","i","j","k","l","m",
          "n","o","p","q","r","s","t","u","v","w","x","y","z"}

Upper == {"A","B","C","D","E","F","G","H","I","J","K","L","M",
          "N","O","P","Q","R","S","T","U","V","W","X","Y","Z"}

Digits == {"0","1","2","3","4","5","6","7","8","9"}

WordChars == Lower \cup Upper \cup Digits \cup {"_"}

SpaceChars == {" ", "\n", "\t", "\r"}

(* [>beat] under the i flag: any ONE of these characters *)
SepChars == {">", "b", "e", "a", "t", "B", "E", "A", "T"}

(* \w *)
IsWord(c) == c \in WordChars

(* \s *)
IsSpace(c) == c \in SpaceChars

IsSepChar(c) == c \in SepChars

DigitValue(c) ==
    CASE c = "0" -> 0 [] c = "1" -> 1 [] c = "2" -> 2 [] c = "3" -> 3
      [] c = "4" -> 4 [] c = "5" -> 5 [] c = "6" -> 6 [] c = "7" -> 7
      [] c = "8" -> 8 [] c = "9" -> 9

----------------------------------------------------------------------------
(* The regular expression /(\w+)\s*[>beat]\s*(\w+)/gi and exec.            *)

(* length of the longest run of word characters of s starting at i (1-based) *)
RECURSIVE WordRun(_, _)
WordRun(s, i) ==
    IF i > Len(s) \/ ~IsWord(s[i]) THEN 0 ELSE 1 + WordRun(s, i + 1)

(* length of the longest run of white space of s starting at i *)
RECURSIVE SpaceRun(_, _)
SpaceRun(s, i) ==
    IF i > Len(s) \/ ~IsSpace(s[i]) THEN 0 ELSE 1 + SpaceRun(s, i + 1)

NoMatch == [found |-> FALSE]

(* The attempt at start i with group 1 = k characters.  Both \s* are greedy *)
(* and giving a space back never helps: the next character would be a      *)
(* space, which is neither in the class nor a word character.  Group 2 is  *)
(* last, so it keeps its longest run.                                      *)
TryAt(s, i, k) ==
    LET p == i + k
        q == p + SpaceRun(s, p)
        t == q + 1 + SpaceRun(s, q + 1)
        m == WordRun(s, t)
    IN  IF q <= Len(s) /\ IsSepChar(s[q]) /\ t <= Len(s) /\ m >= 1
        THEN [found |-> TRUE, index |-> i - 1,
              g1 |-> SubSeq(s, i, i + k - 1),
              g2 |-> SubSeq(s, t, t + m - 1),
              lastIndex |-> t + m - 1]
        ELSE NoMatch

(* (\w+) is greedy: group 1 starts with the whole run of word characters *)
(* and gives them back one at a time until the rest matches               *)
RECURSIVE Backtrack(_, _, _)
Backtrack(s, i, k) ==
    IF k < 1 THEN NoMatch
    ELSE IF TryAt(s, i, k).found THEN TryAt(s, i, k)
    ELSE Backtrack(s, i, k - 1)

MatchAt(s, i) == Backtrack(s, i, WordRun(s, i))

(* the match is tried at each start position from the cursor on, leftmost first *)
RECURSIVE Scan(_, _)
Scan(s, i) ==
    IF i > Len(s) THEN NoMatch
    ELSE IF MatchAt(s, i).found THEN MatchAt(s, i)
    ELSE Scan(s, i + 1)

(* matchPattern.exec(s) with the cursor at li (0-based) *)
RegexExec(s, li) == IF li > Len(s) THEN NoMatch ELSE Scan(s, li + 1)

(* mutant: a failed exec leaves the cursor where it was *)
LastIndexKept(li) == li

(* a failed exec of a global regex sets lastIndex to 0 *)
LastIndexAfterNull(li) == 0

(* String.prototype.trim *)
Trim(s) ==
    LET keep == {i \in 1..Len(s) : ~IsSpace(s[i])}
    IN  IF keep = {} THEN <<>> ELSE SubSeq(s, SetMin(keep), SetMax(keep))

----------------------------------------------------------------------------
(* The players object of calculateRankings (const players = {}, line 44).  *)
(* Its own properties are kept as a sequence of [name, win, lose] in the   *)
(* order they were created.  It is a plain object, so a key it does not    *)
(* own is looked up on Object.prototype.                                   *)

Key__proto__ == <<"_","_","p","r","o","t","o","_","_">>

(* the keys every plain object inherits; each one holds a function or an object *)
ObjectPrototypeKeys ==
    { <<"c","o","n","s","t","r","u","c","t","o","r">>,
      Key__proto__,
      <<"h","a","s","O","w","n","P","r","o","p","e","r","t","y">>,
      <<"i","s","P","r","o","t","o","t","y","p","e","O","f">>,
      <<"p","r","o","p","e","r","t","y","I","s","E","n","u","m","e","r","a","b","l","e">>,
      <<"t","o","L","o","c","a","l","e","S","t","r","i","n","g">>,
      <<"t","o","S","t","r","i","n","g">>,
      <<"v","a","l","u","e","O","f">>,
      <<"_","_","d","e","f","i","n","e","G","e","t","t","e","r","_","_">>,
      <<"_","_","d","e","f","i","n","e","S","e","t","t","e","r","_","_">>,
      <<"_","_","l","o","o","k","u","p","G","e","t","t","e","r","_","_">>,
      <<"_","_","l","o","o","k","u","p","S","e","t","t","e","r","_","_">> }

FieldWin == <<"w","i","n">>

FieldLose == <<"l","o","s","e">>

HasOwn(players, name) == \E i \in 1..Len(players) : players[i].name = name

(* players[name]: the own stats object, an inherited built-in, an inherited *)
(* NaN that an earlier `Object.prototype.win++` left behind, or undefined   *)
Lookup(players, heap, name) ==
    IF HasOwn(players, name) THEN "object"
    ELSE IF name \in ObjectPrototypeKeys THEN "builtin"
    ELSE IF <<Key__proto__, name>> \in heap THEN "NaN"
    ELSE "undefined"

(* !players[name] is false for an object or a function, true for NaN and undefined *)
Truthy(v) == v \in {"object", "builtin"}

(* if (!players[name]) players[name] = { win: 0, lose: 0 }   (lines 48-53) *)
Initialize(players, heap, name) ==
    IF ~Truthy(Lookup(players, heap, name))
    THEN Append(players, [name |-> name, win |-> 0, lose |-> 0])
    ELSE players

(* players[name].win++ / players[name].lose++ on the players object (lines 56-57) *)
Increment(players, name, field) ==
    IF ~HasOwn(players, name) THEN players
    ELSE LET i == CHOOSE j \in 1..Len(players) : players[j].name = name
         IN  IF field = FieldWin
             THEN [players EXCEPT ![i].win = @ + 1]
             ELSE [players EXCEPT ![i].lose = @ + 1]

(* the same statement when players[name] is an inherited built-in: undefined + 1 *)
(* is stored on that built-in object as NaN                                      *)
Pollute(players, heap, name, field) ==
    IF ~HasOwn(players, name) /\ name \in ObjectPrototypeKeys
    THEN heap \cup {<<name, field>>}
    ELSE heap

Ensure(st, name) ==
    [players |-> Initialize(st.players, st.heap, name), heap |-> st.heap]

Credit(st, name, field) ==
    [players |-> Increment(st.players, name, field),
     heap |-> Pollute(st.players, st.heap, name, field)]

(* the forEach callback of lines 46-58 for one match *)
Tally(st, match) ==
    Credit(Credit(Ensure(Ensure(st, match.winner), match.loser),
                  match.winner, FieldWin),
           match.loser, FieldLose)

(* matches.forEach, lines 46-58.  (Binding the state through a singleton set *)
(* makes TLC evaluate each iteration before it starts the next one.)         *)
RECURSIVE TallyAll(_, _, _)
TallyAll(st, ms, i) ==
    IF i > Len(ms) THEN st
    ELSE CHOOSE r \in {TallyAll(next, ms, i + 1) : next \in {Tally(st, ms[i])}} : TRUE

(* digit strings without leading zeros compare as numbers: shorter is less, *)
(* equal lengths compare digit by digit                                     *)
NumLess(a, b) ==
    \/ Len(a) < Len(b)
    \/ /\ Len(a) = Len(b)
       /\ \E i \in 1..Len(a) :
            /\ DigitValue(a[i]) < DigitValue(b[i])
            /\ \A j \in 1..(i - 1) : a[j] = b[j]

(* 2^32 - 1, the first integer that is not an array index *)
IndexLimit == <<"4","2","9","4","9","6","7","2","9","5">>

(* a canonical array index: the decimal spelling of an integer in 0 .. 2^32 - 2 *)
IndexKey(name) ==
    /\ Len(name) >= 1
    /\ \A i \in 1..Len(name) : name[i] \in Digits
    /\ (Len(name) > 1 => name[1] # "0")
    /\ NumLess(name, IndexLimit)

(* Object.entries(players): own keys that are array indices first, in ascending *)
(* numeric order, then the other keys in creation order                         *)
Entries(players) ==
    LET IsIdx(e) == IndexKey(e.name)
        NotIdx(e) == ~IndexKey(e.name)
        idx == SelectSeq(players, IsIdx)
        rank(i) == Cardinality({j \in 1..Len(idx) : NumLess(idx[j].name, idx[i].name)}) + 1
        sortedIdx == [r \in 1..Len(idx) |-> idx[CHOOSE i \in 1..Len(idx) : rank(i) = r]]
    IN  sortedIdx \o SelectSeq(players, NotIdx)

(* win / total as a fraction in lowest terms (equal quotients are equal *)
(* doubles); 0 / 0 is NaN, kept as <<0, 0>>                             *)
Ratio(n, d) ==
    IF d = 0 THEN <<0, 0>> ELSE LET g == Gcd(n, d) IN <<n \div g, d \div g>>

(* mutant: total counts the wins only *)
StatWinsOnly(name, stats) ==
    [player |-> name, win |-> stats.win, lose |-> stats.lose,
     total |-> stats.win, winRate |-> Ratio(stats.win, stats.win + stats.lose)]

(* the map callback of lines 61-66 *)
Stat(name, stats) ==
    [player |-> name, win |-> stats.win, lose |-> stats.lose,
     total |-> stats.win + stats.lose,
     winRate |-> Ratio(stats.win, stats.win + stats.lose)]

(* sign of x.winRate - y.winRate *)
RateDiff(x, y) == x.winRate[1] * y.winRate[2] - y.winRate[1] * x.winRate[2]

(* mutant: no tie-break on the win count *)
CompareRateOnly(a, b) ==
    IF b.winRate # a.winRate THEN RateDiff(b, a) ELSE 0

(* the comparator of lines 67-70 *)
Compare(a, b) ==
    IF b.winRate # a.winRate THEN RateDiff(b, a) ELSE b.win - a.win

(* mutant: an insertion that puts x before the elements it ties with *)
InsertBeforeTies(sorted, x) ==
    LET before == {i \in 1..Len(sorted) : Compare(sorted[i], x) < 0}
        k == IF before = {} THEN 0 ELSE SetMax(before)
    IN  SubSeq(sorted, 1, k) \o <<x>> \o SubSeq(sorted, k + 1, Len(sorted))

(* Array.prototype.sort is stable: x goes after every element that does not *)
(* compare greater than it                                                   *)
InsertSorted(sorted, x) ==
    LET before == {i \in 1..Len(sorted) : Compare(sorted[i], x) <= 0}
        k == IF before = {} THEN 0 ELSE SetMax(before)
    IN  SubSeq(sorted, 1, k) \o <<x>> \o SubSeq(sorted, k + 1, Len(sorted))

RECURSIVE SortFrom(_, _, _)
SortFrom(sorted, s, i) ==
    IF i > Len(s) THEN sorted ELSE SortFrom(InsertSorted(sorted, s[i]), s, i + 1)

(* .sort(comparator), lines 67-70 *)
Sort(s) == SortFrom(<<>>, s, 1)

(* calculateRankings(matches), lines 43-73, run with the built-in objects in *)
(* state heap; arg is the caller's array after the call                      *)
calculateRankings(ms, heap) ==
    LET st == TallyAll([players |-> <<>>, heap |-> heap], ms, 1)
        entries == Entries(st.players)
        stats == [i \in 1..Len(entries) |-> Stat(entries[i].name, entries[i])]
    IN  [rankings |-> Sort(stats), matches |-> ms, arg |-> ms, heap |-> st.heap]

----------------------------------------------------------------------------
(* generateReadme(rankings, matches), lines 75-110.  The document is kept  *)
(* as its two tables; the boilerplate around them is constant text.        *)

(* mutant: slice(0, n), the first n elements *)
SliceFirst(s, n) == SubSeq(s, 1, Min(Len(s), n))

(* matches.slice(-n): the last n elements, all of them when there are fewer *)
SliceLast(s, n) == SubSeq(s, Max(Len(s) - n, 0) + 1, Len(s))

Reverse(s) == [i \in 1..Len(s) |-> s[Len(s) + 1 - i]]

(* (winRate * 100).toFixed(1): tenths of a percent, halves rounded up, *)
(* as <<integer part, decimal digit>>                                   *)
ToFixed1(rate) ==
    LET tenths == (2000 * rate[1] + rate[2]) \div (2 * rate[2])
    IN  <<tenths \div 10, tenths % 10>>

(* new Date(date).toLocaleDateString(): the day, without the time of day; *)
(* timestamps are counted in half days                                    *)
ToLocaleDateString(date) == date \div 2

(* a row of the rankings table, lines 84-85 *)
RankingRow(player, index) ==
    <<index, player.player, player.win, player.lose, player.total,
      ToFixed1(player.winRate)>>

(* a row of the recent matches table, lines 92-93 *)
HistoryRow(match) ==
    <<ToLocaleDateString(match.date), match.winner, match.loser, match.winner>>

generateReadme(rankings, ms) ==
    LET matchHistory == Reverse(SliceLast(ms, RecentCount))
    IN  [rankings |-> [i \in 1..Len(rankings) |-> RankingRow(rankings[i], i)],
         history |-> [i \in 1..Len(matchHistory) |-> HistoryRow(matchHistory[i])]]

----------------------------------------------------------------------------
(* Inputs.  The comment bodies are built from the examples the report      *)
(* itself gives for recording a result (lines 103-105) and a comment       *)
(* without any result.                                                     *)

Thomas == <<"T","h","o","m","a","s">>

Raymond == <<"R","a","y","m","o","n","d">>

Jerry == <<"J","e","r","r","y">>

Kyle == <<"K","y","l","e">>

Lines ==
    { Thomas \o <<" ",">"," ">> \o Raymond,
      Thomas \o <<" ","b","e","a","t"," ">> \o Raymond,
      Jerry \o <<" ",">"," ">> \o Kyle,
      <<"g","g">> }

Bodies == {<<>>} \cup Lines \cup {a \o <<"\n">> \o b : a \in Lines, b \in Lines}

(* comments.data: the i-th comment was created at time i *)
Responses ==
    UNION {{[i \in 1..k |-> [body |-> f[i], created_at |-> i]] : f \in [1..k -> Bodies]}
             : k \in 0..MaxComments}

(* player names for the aggregator: two ordinary names, two all-digit names *)
(* and a name every plain object inherits                                   *)
RankNames == { <<"A","l">>, <<"w","i","n">>, <<"2">>, <<"1","0">>, Key__proto__ }

(* every pairing of two of the names, and one record of a name against itself *)
RankMatches ==
    {m \in [winner : RankNames, loser : RankNames, date : {1}] :
        m.winner # m.loser \/ m.winner = <<"A","l">>}

RankInputs == SeqsUpTo(RankMatches, MaxMatches)

HistoryMatches ==
    { [winner |-> <<"A","l">>, loser |-> <<"w","i","n">>, date |-> 1],
      [winner |-> <<"w","i","n">>, loser |-> <<"A","l">>, date |-> 4] }

HistoryInputs == SeqsUpTo(HistoryMatches, MaxHistory)

(* README.md before the run, and a readme not generated yet *)
OldReport == [rankings |-> <<>>, history |-> <<>>]

----------------------------------------------------------------------------
(* The run of main(), lines 112-130, with getMatchResults inlined.         *)

InitMain ==
    /\ pc = "getMatchResults"
    /\ comments = <<>>
    /\ fetchFailed = FALSE
    /\ ci = 1
    /\ body = <<>>
    /\ lastIndex = 0
    /\ acc = <<>>
    /\ matches = <<>>
    /\ given = <<>>
    /\ results = <<>>
    /\ protoNaN = {}
    /\ readme = OldReport
    /\ file = OldReport
    /\ writes = 0
    /\ rejected = FALSE

(* lines 14-21: listComments answers; matches = [] and the regex literal is created *)
FetchOk ==
    /\ pc = "getMatchResults"
    /\ \E data \in Responses : comments' = data
    /\ acc' = <<>>
    /\ lastIndex' = 0
    /\ ci' = 1
    /\ pc' = "forEach"
    /\ UNCHANGED <<fetchFailed, body, matches, given, results, protoNaN, readme,
                   file, writes, rejected>>

(* line 14 throws; control goes to the catch clause *)
FetchThrows ==
    /\ pc = "getMatchResults"
    /\ fetchFailed' = TRUE
    /\ pc' = "catch"
    /\ UNCHANGED <<comments, ci, body, lastIndex, acc, matches, given, results,
                   protoNaN, readme, file, writes, rejected>>

(* lines 37-40: log and return [] *)
CatchReturn ==
    /\ pc = "catch"
    /\ matches' = <<>>
    /\ pc' = "main"
    /\ UNCHANGED <<comments, fetchFailed, ci, body, lastIndex, acc, given, results,
                   protoNaN, readme, file, writes, rejected>>

(* lines 23-25: forEach calls the callback for the next comment *)
EnterCallback ==
    /\ pc = "forEach"
    /\ ci <= Len(comments)
    /\ body' = comments[ci].body
    /\ pc' = "while"
    /\ UNCHANGED <<comments, fetchFailed, ci, lastIndex, acc, matches, given,
                   results, protoNaN, readme, file, writes, rejected>>

(* lines 27-33: exec finds a match, the record is pushed *)
ExecMatch ==
    /\ pc = "while"
    /\ \E match \in {RegexExec(body, lastIndex)} :
           /\ match.found
           /\ acc' = Append(acc, [winner |-> Trim(match.g1),
                                  loser |-> Trim(match.g2),
                                  date |-> comments[ci].created_at])
           /\ lastIndex' = match.lastIndex
    /\ UNCHANGED <<pc, comments, fetchFailed, ci, body, matches, given, results,
                   protoNaN, readme, file, writes, rejected>>

(* line 27: exec returns null, the while loop and the callback end *)
ExecNull ==
    /\ pc = "while"
    /\ ~RegexExec(body, lastIndex).found
    /\ lastIndex' = LastIndexAfterNull(lastIndex)
    /\ ci' = ci + 1
    /\ pc' = "forEach"
    /\ UNCHANGED <<comments, fetchFailed, body, acc, matches, given, results,
                   protoNaN, readme, file, writes, rejected>>

(* line 36: return matches *)
ReturnMatches ==
    /\ pc = "forEach"
    /\ ci > Len(comments)
    /\ matches' = acc
    /\ pc' = "main"
    /\ UNCHANGED <<comments, fetchFailed, ci, body, lastIndex, acc, given, results,
                   protoNaN, readme, file, writes, rejected>>

(* mutant: main never takes the early return *)
NeverEmpty(ms) == FALSE

(* matches.length === 0, line 118 *)
IsEmpty(ms) == Len(ms) = 0

(* lines 118-121: nothing found, return *)
SkipUpdate ==
    /\ pc = "main"
    /\ IsEmpty(matches)
    /\ pc' = "done"
    /\ UNCHANGED <<comments, fetchFailed, ci, body, lastIndex, acc, matches, given,
                   results, protoNaN, readme, file, writes, rejected>>

(* line 123 *)
Calculate ==
    /\ pc = "main"
    /\ ~IsEmpty(matches)
    /\ \E r \in {calculateRankings(matches, protoNaN)} :
           /\ results' = Append(results, [rankings |-> r.rankings, matches |-> r.matches])
           /\ matches' = r.arg
           /\ protoNaN' = r.heap
    /\ given' = matches
    /\ pc' = "generateReadme"
    /\ UNCHANGED <<comments, fetchFailed, ci, body, lastIndex, acc, readme, file,
                   writes, rejected>>

(* line 124 *)
Generate ==
    /\ pc = "generateReadme"
    /\ readme' = generateReadme(results[1].rankings, matches)
    /\ pc' = "writeFileSync"
    /\ UNCHANGED <<comments, fetchFailed, ci, body, lastIndex, acc, matches, given,
                   results, protoNaN, file, writes, rejected>>

(* line 126 *)
WriteOk ==
    /\ pc = "writeFileSync"
    /\ file' = readme
    /\ writes' = writes + 1
    /\ pc' = "done"
    /\ UNCHANGED <<comments, fetchFailed, ci, body, lastIndex, acc, matches, given,
                   results, protoNaN, readme, rejected>>

(* line 126 throws (the file cannot be written); main rejects, line 130 logs it *)
WriteThrows ==
    /\ pc = "writeFileSync"
    /\ rejected' = TRUE
    /\ pc' = "done"
    /\ UNCHANGED <<comments, fetchFailed, ci, body, lastIndex, acc, matches, given,
                   results, protoNaN, readme, file, writes>>

Next ==
    \/ FetchOk
    \/ FetchThrows
    \/ CatchReturn
    \/ EnterCallback
    \/ ExecMatch
    \/ ExecNull
    \/ ReturnMatches
    \/ SkipUpdate
    \/ Calculate
    \/ Generate
    \/ WriteOk
    \/ WriteThrows

Spec == InitMain /\ [][Next]_vars

----------------------------------------------------------------------------
(* calculateRankings on its own: it is called twice on the same array, in  *)
(* one process (the built-in objects persist between the calls).           *)

InitRank ==
    /\ pc = "calculateRankings"
    /\ matches \in RankInputs
    /\ given = matches
    /\ comments = <<>>
    /\ fetchFailed = FALSE
    /\ ci = 1
    /\ body = <<>>
    /\ lastIndex = 0
    /\ acc = <<>>
    /\ results = <<>>
    /\ protoNaN = {}
    /\ readme = OldReport
    /\ file = OldReport
    /\ writes = 0
    /\ rejected = FALSE

CallCalculate ==
    /\ pc \in {"calculateRankings", "again"}
    /\ pc' = IF pc = "calculateRankings" THEN "again" ELSE "returned"
    /\ \E r \in {calculateRankings(matches, protoNaN)} :
           /\ results' = Append(results, [rankings |-> r.rankings, matches |-> r.matches])
           /\ matches' = r.arg
           /\ protoNaN' = r.heap
    /\ UNCHANGED <<comments, fetchFailed, ci, body, lastIndex, acc, given,
                   readme, file, writes, rejected>>

NextRank == CallCalculate

SpecRank == InitRank /\ [][NextRank]_vars

----------------------------------------------------------------------------
(* Lines 123-124 on their own, on match sequences longer than the window   *)
(* of generateReadme.                                                      *)

InitReadme ==
    /\ pc = "generateReadme"
    /\ matches \in HistoryInputs
    /\ given = matches
    /\ comments = <<>>
    /\ fetchFailed = FALSE
    /\ ci = 1
    /\ body = <<>>
    /\ lastIndex = 0
    /\ acc = <<>>
    /\ results = <<>>
    /\ protoNaN = {}
    /\ readme = OldReport
    /\ file = OldReport
    /\ writes = 0
    /\ rejected = FALSE

Render ==
    /\ pc = "generateReadme"
    /\ \E r \in {calculateRankings(matches, protoNaN)} :
           /\ results' = <<[rankings |-> r.rankings, matches |-> r.matches]>>
           /\ readme' = generateReadme(r.rankings, matches)
    /\ pc' = "rendered"
    /\ UNCHANGED <<comments, fetchFailed, ci, body, lastIndex, acc, matches, given,
                   protoNaN, file, writes, rejected>>

NextReadme == Render

SpecReadme == InitReadme /\ [][NextReadme]_vars

----------------------------------------------------------------------------
(* Properties of calculateRankings, under SpecRank.                        *)

Returned == {results[k] : k \in 1..Len(results)}

Tied(a, b) == a.winRate = b.winRate /\ a.win = b.win

(* position of the first mention of name in the match sequence, the winner *)
(* of a record counting before its loser                                   *)
FirstSeen(ms, name) ==
    SetMin({2 * k - 1 : k \in {j \in 1..Len(ms) : ms[j].winner = name}}
           \cup {2 * k : k \in {j \in 1..Len(ms) : ms[j].loser = name}})

(* C1: every entry of the returned rankings has total = win + lose, *)
(* total >= 1 and a winRate = win / total between 0 and 1.          *)
C1_StatsConsistent ==
    \A r \in Returned : \A i \in 1..Len(r.rankings) :
        LET e == r.rankings[i]
        IN  /\ e.total = e.win + e.lose
            /\ e.total >= 1
            /\ 0 <= e.win /\ e.win <= e.total
            /\ e.winRate[2] > 0
            /\ e.winRate[1] * e.total = e.win * e.winRate[2]
            /\ 0 <= e.winRate[1] /\ e.winRate[1] <= e.winRate[2]

C1_Witness ==
    \E r \in Returned : \E i \in 1..Len(r.rankings) :
        r.rankings[i].win = 2 /\ r.rankings[i].lose = 1

C3_PlayersExact ==
    \A r \in Returned :
        /\ {r.rankings[i].player : i \in 1..Len(r.rankings)}
             = {given[k].winner : k \in 1..Len(given)}
                 \cup {given[k].loser : k \in 1..Len(given)}
        /\ \A i, j \in 1..Len(r.rankings) :
             r.rankings[i].player = r.rankings[j].player => i = j
        /\ \A i \in 1..Len(r.rankings) :
             /\ r.rankings[i].win
                  = Cardinality({k \in 1..Len(given) :
                                   given[k].winner = r.rankings[i].player})
             /\ r.rankings[i].lose
                  = Cardinality({k \in 1..Len(given) :
                                   given[k].loser = r.rankings[i].player})

(* C8: calculateRankings is pure: the array it was given is unchanged and is *)
(* what it returns as matches, a second call on it returns the same rankings *)
(* as the first, and no call leaves state behind for the next.               *)
C8_Pure ==
    /\ matches = given
    /\ \A r \in Returned : r.matches = given /\ r.rankings = results[1].rankings
    /\ protoNaN = {}

(* C9 as stated: of two players with equal winRate and equal win, the one *)
(* first mentioned earlier in the match sequence is ranked earlier,       *)
(* whatever the names are.                                                *)
C9_FirstSeenOrder ==
    \A r \in Returned : \A i, j \in 1..Len(r.rankings) :
        (i < j /\ Tied(r.rankings[i], r.rankings[j]))
            => FirstSeen(given, r.rankings[i].player)
                 < FirstSeen(given, r.rankings[j].player)

(* C9 amended: of two players with equal winRate and equal win, neither of *)
(* whose names is a canonical array index, the one first mentioned earlier *)
(* is ranked earlier; tied players whose names are canonical array indices *)
(* come before the other tied players, in ascending numeric order.         *)
C9_TieOrder ==
    \A r \in Returned : \A i, j \in 1..Len(r.rankings) :
        LET a == r.rankings[i]
            b == r.rankings[j]
        IN  (i < j /\ Tied(a, b)) =>
              /\ (~IndexKey(a.player) /\ ~IndexKey(b.player))
                    => FirstSeen(given, a.player) < FirstSeen(given, b.player)
              /\ (IndexKey(a.player) /\ IndexKey(b.player))
                    => NumLess(a.player, b.player)
              /\ IndexKey(b.player) => IndexKey(a.player)

C9_Witness ==
    \E r \in Returned : \E i, j, k, l \in 1..Len(r.rankings) :
        /\ i < j /\ Tied(r.rankings[i], r.rankings[j])
        /\ ~IndexKey(r.rankings[i].player) /\ ~IndexKey(r.rankings[j].player)
        /\ k < l /\ Tied(r.rankings[k], r.rankings[l])
        /\ IndexKey(r.rankings[k].player) /\ IndexKey(r.rankings[l].player)
        /\ FirstSeen(given, r.rankings[k].player)
             > FirstSeen(given, r.rankings[l].player)

----------------------------------------------------------------------------
(* Properties of generateReadme, under SpecReadme.                         *)

(* C7: the recent matches table has min(n, 10) rows and row i is the match *)
(* at input position n - i + 1.                                            *)
C7_RecentMatches ==
    pc = "rendered" =>
        /\ Len(readme.history) = Min(Len(matches), RecentCount)
        /\ \A i \in 1..Len(readme.history) :
             readme.history[i] = HistoryRow(matches[Len(matches) - i + 1])

C7_Witness ==
    /\ pc = "rendered"
    /\ Len(matches) > RecentCount
    /\ Len(readme.history) = RecentCount
    /\ matches[1] # matches[Len(matches) - RecentCount + 1]
    /\ matches[Len(matches)] # matches[Len(matches) - 1]

----------------------------------------------------------------------------
(* Properties of getMatchResults and main, under Spec.                     *)

(* getMatchResults has returned the array it built *)
Extracted == pc \in {"main", "generateReadme", "writeFileSync", "done"} /\ ~fetchFailed

LowerCase(c) ==
    CASE c = "B" -> "b" [] c = "E" -> "e" [] c = "A" -> "a" [] c = "T" -> "t"
      [] OTHER -> c

(* length of the separator that starts at position q of s: `>`, or the word *)
(* beat in any case; 0 when none starts there                               *)
SepAt(s, q) ==
    IF s[q] = ">" THEN 1
    ELSE IF /\ q + 3 <= Len(s)
            /\ [i \in 1..4 |-> LowerCase(s[q + i - 1])] = <<"b", "e", "a", "t">>
            /\ (q = 1 \/ ~IsWord(s[q - 1]))
            /\ (q + 4 > Len(s) \/ ~IsWord(s[q + 4]))
         THEN 4
         ELSE 0

SepCount(s) == Cardinality({q \in 1..Len(s) : SepAt(s, q) > 0})

RECURSIVE SumSepCount(_, _)
SumSepCount(cs, n) ==
    IF n = 0 THEN 0 ELSE SumSepCount(cs, n - 1) + SepCount(cs[n].body)

(* the whole word that ends right before position q, white space skipped *)
TokenBefore(s, q) ==
    LET e == SetMax({0} \cup {j \in 1..(q - 1) : ~IsSpace(s[j])})
        b == SetMin({j \in 1..(e + 1) : \A m \in j..e : IsWord(s[m])})
    IN  SubSeq(s, b, e)

(* the whole word that starts right after position r - 1, white space skipped *)
TokenAfter(s, r) ==
    LET t == r + SpaceRun(s, r)
    IN  SubSeq(s, t, t + WordRun(s, t) - 1)

(* the comment bodies made of match texts only, one per line *)
MatchTexts == Lines \ {<<"g", "g">>}

WellFormedBodies == MatchTexts \cup {a \o <<"\n">> \o b : a \in MatchTexts, b \in MatchTexts}

(* C4: when every comment body is made of well-formed match texts, the number *)
(* of extracted records equals the number of separators in the bodies.        *)
C4_RecordPerSeparator ==
    (Extracted /\ \A i \in 1..Len(comments) : comments[i].body \in WellFormedBodies)
        => Len(matches) = SumSepCount(comments, Len(comments))

(* C5: every `A > B` or `A beat B` in a comment body, A and B whole words, *)
(* gives a record with winner A, loser B and the comment's created_at.     *)
C5_RecordPerOccurrence ==
    Extracted =>
        \A i \in 1..Len(comments) :
            LET s == comments[i].body
            IN  \A q \in 1..Len(s) :
                    (/\ SepAt(s, q) > 0
                     /\ TokenBefore(s, q) # <<>>
                     /\ TokenAfter(s, q + SepAt(s, q)) # <<>>)
                    => \E k \in 1..Len(matches) :
                          matches[k] = [winner |-> TokenBefore(s, q),
                                        loser |-> TokenAfter(s, q + SepAt(s, q)),
                                        date |-> comments[i].created_at]

(* C6: README.md is written at most once and only when a record was found; *)
(* a failed fetch gives the empty list; with an empty list main ends        *)
(* without writing, with the old report in place and without rejecting.     *)
C6_WriteOnlyWithRecords ==
    /\ writes <= 1
    /\ (writes = 1 => Len(matches) >= 1)
    /\ (file # OldReport => writes = 1)
    /\ ((fetchFailed /\ pc \in {"main", "done"}) => matches = <<>>)
    /\ ((pc \in {"generateReadme", "writeFileSync"}) => Len(matches) >= 1)
    /\ ((pc = "done" /\ Len(matches) = 0)
           => writes = 0 /\ file = OldReport /\ ~rejected)

C6_Witness ==
    pc = "done" /\ fetchFailed /\ matches = <<>> /\ writes = 0 /\ file = OldReport

(* the records of one comment, found by scanning its body from position li on *)
RECURSIVE RecordsFrom(_, _)
RecordsFrom(c, li) ==
    CHOOSE rs \in
        { IF ~m.found THEN <<>>
          ELSE <<[winner |-> Trim(m.g1), loser |-> Trim(m.g2), date |-> c.created_at]>>
               \o RecordsFrom(c, m.lastIndex)
          : m \in {RegexExec(c.body, li)} } : TRUE

RECURSIVE RecordsOfFirst(_, _)
RecordsOfFirst(cs, n) ==
    IF n = 0 THEN <<>> ELSE RecordsOfFirst(cs, n - 1) \o RecordsFrom(cs[n], 0)

(* C10: the cursor of the shared regex is 0 whenever forEach moves to a       *)
(* comment, and the records are those of each comment scanned from position 0 *)
(* on its own, concatenated in comment order.                                 *)
C10_ScanFromZero ==
    /\ pc = "forEach" =>
          /\ lastIndex = 0
          /\ acc = RecordsOfFirst(comments, ci - 1)
    /\ Extracted => matches = RecordsOfFirst(comments, Len(comments))

C10_Witness ==
    /\ pc = "forEach"
    /\ ci = 2
    /\ ci <= Len(comments)
    /\ Len(acc) >= 2
    /\ RegexExec(comments[ci].body, 0).found

====
